---- MODULE Spec2Model ----
(***************************************************************************)
(* A model of mailgun46: the EmailBuilder (src/src/email.rs), the Email    *)
(* wire encoding, and Mailer::send (src/src/lib.rs) with its error         *)
(* taxonomy (src/src/error.rs).                                            *)
(*                                                                         *)
(* Strings are sequences of text fragments (single characters for the      *)
(* inputs, literal fragments for the program's literals), so that          *)
(* formatting and joining are computed and not assumed.  Option<T> is a    *)
(* sequence of length at most one: None is << >>, Some(x) is <<x>>.        *)
(***************************************************************************)
EXTENDS Integers, Sequences, FiniteSets, TLC

VARIABLES
    \* ---- EmailBuilder run (specification Spec)
    builder,    \* the EmailBuilder value threaded through the chained calls
    built,      \* what build returned: NotBuilt, Ok(Email) or Err(BuildError)
    toCalls,    \* history: the arguments of the `to` calls, in call order
    lastBody,   \* history: the most recent body assignment, <<kind, value>>
    wire,       \* the last serialization of the built Email
    \* ---- Mailer run (specification SendSpec)
    domain,     \* the domain the Mailer was constructed for
    mailer,     \* the Mailer: from, messages_url, auth (default header)
    sender,     \* history: per call, the sender given to the builder (Option)
    email,      \* per call, the Email handed to Email::send (Option)
    pc,         \* per call, the position of the send future
    posts,      \* per call, the requests it has posted, in order
    resp,       \* per call, what the transport has delivered so far
    result      \* per call, what the send call returned

bvars == <<builder, built, toCalls, lastBody, wire>>
svars == <<domain, mailer, sender, email, pc, posts, resp, result>>
vars == <<builder, built, toCalls, lastBody, wire,
          domain, mailer, sender, email, pc, posts, resp, result>>

-----------------------------------------------------------------------------
\* Bounds of the model.

\* the largest number of `to` calls on one builder
MaxRecipients == 2
\* the number of concurrent send calls against the one Mailer
NumCalls == 2

-----------------------------------------------------------------------------
\* Option<T>

None == << >>
Some(x) == <<x>>
IsSome(o) == Len(o) = 1
Unwrap(o) == o[1]

\* Input alphabets.
Recipients == { << >>, <<"a">>, <<"b">> }
Senders == { <<"s">> }
Subjects == { <<"S">> }
Htmls == { <<"h">> }
Texts == { <<"t">> }

-----------------------------------------------------------------------------
\* src/src/email.rs

\* #[derive(Default)] struct EmailBody { html: Option<String>, text: Option<String> }
EmailBody_default == [html |-> None, text |-> None]

\* #[derive(Default)] struct EmailBuilder
EmailBuilder_default ==
    [from |-> None, recipients |-> << >>, subject |-> None, body |-> None]

\* Option::unwrap_or_default on Option<EmailBody>
unwrap_or_default(o) == IF IsSome(o) THEN Unwrap(o) ELSE EmailBody_default

EmailBuilder_from(self, from) == [self EXCEPT !.from = Some(from)]

\* variant of EmailBuilder_to: the recipient is put in front
to_prepend(self, recipient) ==
    [self EXCEPT !.recipients = <<recipient>> \o @]
EmailBuilder_to(self, recipient) ==
    [self EXCEPT !.recipients = Append(@, recipient)]

EmailBuilder_subject(self, subject) == [self EXCEPT !.subject = Some(subject)]

EmailBuilder_body(self, body) == [self EXCEPT !.body = Some(body)]

EmailBuilder_text_body(self, text) ==
    LET body == [unwrap_or_default(self.body) EXCEPT !.text = Some(text)]
    IN  [self EXCEPT !.body = Some(body)]

EmailBuilder_html_body(self, html) ==
    LET body == [unwrap_or_default(self.body) EXCEPT !.html = Some(html)]
    IN  [self EXCEPT !.body = Some(body)]

\* [String]::join(sep): the first item, then sep and the item for each other
RECURSIVE join_from(_, _, _)
join_from(items, sep, i) ==
    IF i > Len(items) THEN << >>
    ELSE sep \o items[i] \o join_from(items, sep, i + 1)

\* variant of join: the separator is left out
join_no_sep(items, sep) ==
    IF items = << >> THEN << >> ELSE items[1] \o join_from(items, << >>, 2)
join(items, sep) ==
    IF items = << >> THEN << >> ELSE items[1] \o join_from(items, sep, 2)

NotBuilt == [tag |-> "NotBuilt"]
Ok(v) == [tag |-> "Ok", val |-> v]
\* BuildError::MissingField(&'static str)
MissingField(field) == [tag |-> "MissingField", field |-> field]

no_subject == <<"n", "o", " ", "s", "u", "b", "j", "e", "c", "t">>

\* variant of EmailBuilder_build: no check of the recipients
build_unchecked(self) ==
    Ok([from |-> self.from,
        to |-> join(self.recipients, <<",">>),
        subject |-> IF IsSome(self.subject) THEN Unwrap(self.subject)
                    ELSE no_subject,
        body |-> self.body])
EmailBuilder_build(self) ==
    IF self.recipients = << >>
    THEN MissingField("to")
    ELSE Ok([from |-> self.from,
             to |-> join(self.recipients, <<",">>),
             subject |-> IF IsSome(self.subject) THEN Unwrap(self.subject)
                         ELSE no_subject,
             body |-> self.body])

\* #[derive(Serialize)] on Email, with #[serde(flatten)] on body: the entries
\* handed to the serializer, in order, each <<key, Option<String>>>.  A body
\* of None contributes nothing; a body of Some contributes both its fields.
Email_serialize(e) ==
    << <<"from", e.from>>, <<"to", Some(e.to)>>, <<"subject", Some(e.subject)>> >>
    \o (IF IsSome(e.body)
        THEN << <<"html", Unwrap(e.body).html>>, <<"text", Unwrap(e.body).text>> >>
        ELSE << >>)

JsonNull == [type |-> "null", val |-> << >>]
JsonString(s) == [type |-> "string", val |-> s]
JsonNumber == [type |-> "number", val |-> << >>]

\* serde_json: every entry is written, None as null
to_json(e) ==
    [i \in 1..Len(Email_serialize(e)) |->
        LET kv == Email_serialize(e)[i]
        IN  <<kv[1], IF IsSome(kv[2]) THEN JsonString(Unwrap(kv[2])) ELSE JsonNull>>]

\* serde_urlencoded (RequestBuilder::form): an entry whose value is None is
\* not written
RECURSIVE form_pairs(_)
form_pairs(entries) ==
    IF entries = << >> THEN << >>
    ELSE LET kv == Head(entries)
         IN  (IF IsSome(kv[2]) THEN << <<kv[1], Unwrap(kv[2])>> >> ELSE << >>)
             \o form_pairs(Tail(entries))

to_form(e) == form_pairs(Email_serialize(e))

\* the keys of a serialization, and the values under one key
Keys(pairs) == [i \in 1..Len(pairs) |-> pairs[i][1]]
Values(pairs, key) == { pairs[i][2] : i \in { j \in 1..Len(pairs) : pairs[j][1] = key } }

-----------------------------------------------------------------------------
\* The EmailBuilder run: chained calls on one builder, then build, then the
\* serialization of the Email.

NoWire == [codec |-> "none", pairs |-> << >>]

InitSendIdle ==
    /\ domain = << >>
    /\ mailer = [from |-> << >>, messages_url |-> << >>, auth |-> << >>]
    /\ sender = [c \in 1..NumCalls |-> None]
    /\ email = [c \in 1..NumCalls |-> None]
    /\ pc = [c \in 1..NumCalls |-> "unused"]
    /\ posts = [c \in 1..NumCalls |-> << >>]
    /\ resp = [c \in 1..NumCalls |-> [status |-> 0, body |-> None, error |-> None]]
    /\ result = [c \in 1..NumCalls |-> [tag |-> "Pending"]]

Init ==
    /\ builder = EmailBuilder_default
    /\ built = NotBuilt
    /\ toCalls = << >>
    /\ lastBody = <<"none", << >> >>
    /\ wire = NoWire
    /\ InitSendIdle

From(s) ==
    /\ built = NotBuilt
    /\ builder' = EmailBuilder_from(builder, s)
    /\ UNCHANGED <<built, toCalls, lastBody, wire, svars>>

To(r) ==
    /\ built = NotBuilt
    /\ Len(toCalls) < MaxRecipients
    /\ builder' = EmailBuilder_to(builder, r)
    /\ toCalls' = Append(toCalls, r)
    /\ UNCHANGED <<built, lastBody, wire, svars>>

Subject(s) ==
    /\ built = NotBuilt
    /\ builder' = EmailBuilder_subject(builder, s)
    /\ UNCHANGED <<built, toCalls, lastBody, wire, svars>>

\* EmailBody has private fields and no constructor: a caller can pass only
\* EmailBody::default()
Body ==
    /\ built = NotBuilt
    /\ builder' = EmailBuilder_body(builder, EmailBody_default)
    /\ lastBody' = <<"body", << >> >>
    /\ UNCHANGED <<built, toCalls, wire, svars>>

TextBody(t) ==
    /\ built = NotBuilt
    /\ builder' = EmailBuilder_text_body(builder, t)
    /\ lastBody' = <<"text", t>>
    /\ UNCHANGED <<built, toCalls, wire, svars>>

HtmlBody(h) ==
    /\ built = NotBuilt
    /\ builder' = EmailBuilder_html_body(builder, h)
    /\ lastBody' = <<"html", h>>
    /\ UNCHANGED <<built, toCalls, wire, svars>>

Build ==
    /\ built = NotBuilt
    /\ built' = EmailBuilder_build(builder)
    /\ UNCHANGED <<builder, toCalls, lastBody, wire, svars>>

SerializeJson ==
    /\ built.tag = "Ok"
    /\ wire' = [codec |-> "json", pairs |-> to_json(built.val)]
    /\ UNCHANGED <<builder, built, toCalls, lastBody, svars>>

SerializeForm ==
    /\ built.tag = "Ok"
    /\ wire' = [codec |-> "form", pairs |-> to_form(built.val)]
    /\ UNCHANGED <<builder, built, toCalls, lastBody, svars>>

Next ==
    \/ \E s \in Senders : From(s)
    \/ \E r \in Recipients : To(r)
    \/ \E s \in Subjects : Subject(s)
    \/ Body
    \/ \E t \in Texts : TextBody(t)
    \/ \E h \in Htmls : HtmlBody(h)
    \/ Build
    \/ SerializeJson
    \/ SerializeForm

Spec == Init /\ [][Next]_vars

-----------------------------------------------------------------------------
\* src/src/lib.rs, src/src/error.rs

MG_BASE_URL == <<"https://api.eu.mailgun.net">>
Token == <<"k">>
Domains == { <<"d">>, <<"e">> }
Statuses == {200, 201, 500}
\* what a failing transport reports (reqwest::Error)
Diagnostics == {"connect", "timeout"}

\* base64::encode, as an opaque injective encoding: one fragment
base64(s) == << [base64 |-> s] >>

\* the Ok branch of Mailer::new_with_mg_url
new_with_mg_url(mg_url, dom, token) ==
    [from |-> <<"noreply@">> \o dom,
     messages_url |-> mg_url \o <<"/v3/">> \o dom \o <<"/messages">>,
     auth |-> <<"Basic ">> \o base64(<<"api:">> \o token)]

\* Email::send, before it delegates to Mailer::send
\* variant of Email_send: the default sender is not filled in
send_unfilled(e, m) == e
Email_send(e, m) ==
    IF e.from = None THEN [e EXCEPT !.from = Some(m.from)] ELSE e

\* client.post(messages_url).form(&email): the request put on the wire
Request(m, e) ==
    [url |-> m.messages_url, auth |-> m.auth, form |-> to_form(e)]

\* res.status() != StatusCode::OK, negated
\* variant of is_ok: any 2xx status passes
is_success(status) == status \in 200..299
is_ok(status) == status = 200

\* SendError::Http(String)
Http(msg) == [tag |-> "Http", msg |-> msg]
\* SendError::Non200Reply(reqwest::StatusCode): the variant has the status as
\* its only field, so the body text Mailer::send reads has no place in it
Non200Reply(status, body) == [tag |-> "Non200Reply", status |-> status]
\* impl From<reqwest::Error> for SendError
SendError_from(err) == Http(<<"reqwest: ", err>>)

\* struct MessageId(String)
MessageId(s) == <<s>>

\* Response bodies, by their syntax: a JSON object (its members in order) or
\* a text that is no JSON.
JsonBody(text, obj) == [kind |-> "json", obj |-> obj, text |-> text]
TextBody_(text) == [kind |-> "text", obj |-> << >>, text |-> text]
Bodies ==
    { JsonBody(<<"{id:x}">>, << <<"id", JsonString(<<"x">>)>> >>),
      JsonBody(<<"{id:y,message:q}">>,
               << <<"id", JsonString(<<"y">>)>>,
                  <<"message", JsonString(<<"q">>)>> >>),
      JsonBody(<<"{message:q}">>, << <<"message", JsonString(<<"q">>)>> >>),
      JsonBody(<<"{id:1}">>, << <<"id", JsonNumber>> >>),
      TextBody_(<<"oops">>) }

\* String::from_utf8_lossy(&body_bs): the text of the body
from_utf8_lossy(b) == b.text

\* res.json::<MailReply>(): #[derive(Deserialize)] struct MailReply { id: String },
\* unknown members ignored, a missing or non-string id is an error
MailReply_json(b) ==
    LET ids == { i \in 1..Len(b.obj) :
                    b.obj[i][1] = "id" /\ b.obj[i][2].type = "string" }
    IN  IF b.kind = "json" /\ ids # {}
        THEN Ok([id |-> b.obj[CHOOSE i \in ids : TRUE][2].val])
        ELSE [tag |-> "Err", err |-> "decode"]

-----------------------------------------------------------------------------
\* The Mailer run: NumCalls callers each compose an Email with the builder
\* and send it through the one Mailer; the send futures interleave at their
\* await points.

Calls == 1..NumCalls
NoResp == [status |-> 0, body |-> None, error |-> None]
\* the send future has not returned
Pending == [tag |-> "Pending"]

InitBuilderIdle ==
    /\ builder = EmailBuilder_default
    /\ built = NotBuilt
    /\ toCalls = << >>
    /\ lastBody = <<"none", << >> >>
    /\ wire = NoWire

InitSend ==
    /\ InitBuilderIdle
    /\ domain \in Domains
    /\ mailer = new_with_mg_url(MG_BASE_URL, domain, Token)
    /\ sender = [c \in Calls |-> None]
    /\ email = [c \in Calls |-> None]
    /\ pc = [c \in Calls |-> "start"]
    /\ posts = [c \in Calls |-> << >>]
    /\ resp = [c \in Calls |-> NoResp]
    /\ result = [c \in Calls |-> Pending]

\* the recipient call c writes to: neighbouring calls write to different ones
RecipientOf(c) == IF c % 2 = 1 THEN <<"a">> ELSE <<"b">>

\* EmailBuilder::default()[.from(s)].to(r).text_body(t).build()?
Compose(c, s) ==
    /\ pc[c] = "start"
    /\ LET b0 == EmailBuilder_default
           b1 == IF IsSome(s) THEN EmailBuilder_from(b0, Unwrap(s)) ELSE b0
           b2 == EmailBuilder_text_body(EmailBuilder_to(b1, RecipientOf(c)), <<"t">>)
           e == EmailBuilder_build(b2)
       IN  /\ e.tag = "Ok"
           /\ email' = [email EXCEPT ![c] = Some(e.val)]
    /\ sender' = [sender EXCEPT ![c] = s]
    /\ pc' = [pc EXCEPT ![c] = "built"]
    /\ UNCHANGED <<bvars, domain, mailer, posts, resp, result>>

\* Email::send and Mailer::send up to the first await: the request is posted
\* variant of EmailSend: the sender sent is kept in the Mailer
EmailSendStoresSender(c) ==
    /\ pc[c] = "built"
    /\ LET e == Email_send(Unwrap(email[c]), mailer)
       IN  /\ posts' = [posts EXCEPT ![c] = Append(@, Request(mailer, e))]
           /\ mailer' = [mailer EXCEPT !.from = Unwrap(e.from)]
    /\ pc' = [pc EXCEPT ![c] = "awaiting"]
    /\ UNCHANGED <<bvars, domain, sender, email, resp, result>>
EmailSend(c) ==
    /\ pc[c] = "built"
    /\ LET e == Email_send(Unwrap(email[c]), mailer)
       IN  posts' = [posts EXCEPT ![c] = Append(@, Request(mailer, e))]
    /\ pc' = [pc EXCEPT ![c] = "awaiting"]
    /\ UNCHANGED <<bvars, domain, mailer, sender, email, resp, result>>

\* .send().await? fails: the error is converted and returned
\* variant of TransportError: the request is posted again
TransportErrorRetry(c, d) ==
    /\ pc[c] = "awaiting"
    /\ resp[c].error = None
    /\ resp' = [resp EXCEPT ![c].error = Some(d)]
    /\ posts' = [posts EXCEPT ![c] = Append(@, posts[c][1])]
    /\ UNCHANGED <<bvars, domain, mailer, sender, email, pc, result>>
TransportError(c, d) ==
    /\ pc[c] = "awaiting"
    /\ resp' = [resp EXCEPT ![c].error = Some(d)]
    /\ result' = [result EXCEPT ![c] = SendError_from(d)]
    /\ pc' = [pc EXCEPT ![c] = "done"]
    /\ UNCHANGED <<bvars, domain, mailer, sender, email, posts>>

\* .send().await? delivers a response; either branch on its status then
\* awaits the body (res.bytes() or res.json())
ReceiveStatus(c, st) ==
    /\ pc[c] = "awaiting"
    /\ resp' = [resp EXCEPT ![c].status = st]
    /\ pc' = [pc EXCEPT ![c] = "reading"]
    /\ UNCHANGED <<bvars, domain, mailer, sender, email, posts, result>>

\* the body arrives: Non200Reply for a status other than 200, else the
\* MailReply is parsed and its id returned
ReceiveBody(c, b) ==
    /\ pc[c] = "reading"
    /\ resp' = [resp EXCEPT ![c].body = Some(b)]
    /\ result' = [result EXCEPT ![c] =
          IF ~is_ok(resp[c].status)
          THEN Non200Reply(resp[c].status, from_utf8_lossy(b))
          ELSE LET reply == MailReply_json(b)
               IN  IF reply.tag = "Ok" THEN Ok(MessageId(reply.val.id))
                   ELSE SendError_from(reply.err)]
    /\ pc' = [pc EXCEPT ![c] = "done"]
    /\ UNCHANGED <<bvars, domain, mailer, sender, email, posts>>

\* reading the body fails in the transport: res.bytes().await? or
\* res.json().await? returns the converted error
BodyError(c, d) ==
    /\ pc[c] = "reading"
    /\ resp' = [resp EXCEPT ![c].error = Some(d)]
    /\ result' = [result EXCEPT ![c] = SendError_from(d)]
    /\ pc' = [pc EXCEPT ![c] = "done"]
    /\ UNCHANGED <<bvars, domain, mailer, sender, email, posts>>

NextSend ==
    \/ \E c \in Calls, s \in {None} \cup {Some(x) : x \in Senders} : Compose(c, s)
    \/ \E c \in Calls : EmailSend(c)
    \/ \E c \in Calls, d \in Diagnostics : TransportError(c, d)
    \/ \E c \in Calls, st \in Statuses : ReceiveStatus(c, st)
    \/ \E c \in Calls, b \in Bodies : ReceiveBody(c, b)
    \/ \E c \in Calls, d \in Diagnostics : BodyError(c, d)

SendSpec == InitSend /\ [][NextSend]_vars

-----------------------------------------------------------------------------
\* Properties of the EmailBuilder run (specification Spec).

\* where the i-th recipient starts in the joined `to` (0-based offset)
RECURSIVE Offset(_)
Offset(i) == IF i <= 1 THEN 0 ELSE Offset(i - 1) + Len(toCalls[i - 1]) + 1

\* C1: once `to` was called at least once, build returns Ok and the Email's
\* `to` is the `to` arguments in call order, each at its place, a comma
\* before every one but the first, and nothing else.
C1_BuildJoinsRecipientsInOrder ==
    (built.tag # "NotBuilt" /\ Len(toCalls) >= 1) =>
        /\ built.tag = "Ok"
        /\ LET t == built.val.to
               n == Len(toCalls)
           IN  /\ Len(t) = Offset(n + 1) - 1
               /\ \A i \in 1..n :
                    /\ SubSeq(t, Offset(i) + 1, Offset(i) + Len(toCalls[i])) = toCalls[i]
                    /\ i > 1 => t[Offset(i)] = ","

C1_Witness ==
    /\ built.tag = "Ok"
    /\ Len(toCalls) = 2
    /\ toCalls[1] = <<"b">> /\ toCalls[2] = <<"a">>
    /\ IsSome(builder.from) /\ IsSome(builder.subject) /\ IsSome(builder.body)

\* C2: when `to` was never called, build returns the missing-field error for
\* `to` and no Email, whatever else was set.
C2_BuildWithoutRecipientFails ==
    (built.tag # "NotBuilt" /\ toCalls = << >>) =>
        /\ built.tag = "MissingField"
        /\ built.field = "to"
        /\ "val" \notin DOMAIN built

C2_Witness ==
    /\ built.tag = "MissingField"
    /\ toCalls = << >>
    /\ IsSome(builder.from) /\ IsSome(builder.subject) /\ IsSome(builder.body)

\* C3: the built Email carries at most one of html and text, the one most
\* recently assigned; after html_body then text_body the form encoding has
\* text=t and no html.
C3_BodyMostRecentWins ==
    built.tag = "Ok" =>
        LET b == built.val.body
        IN  /\ IsSome(b) => ~(IsSome(Unwrap(b).html) /\ IsSome(Unwrap(b).text))
            /\ lastBody[1] = "text" =>
                  /\ IsSome(b)
                  /\ Unwrap(b).text = Some(lastBody[2])
                  /\ Unwrap(b).html = None
            /\ lastBody[1] = "html" =>
                  /\ IsSome(b)
                  /\ Unwrap(b).html = Some(lastBody[2])
                  /\ Unwrap(b).text = None
            /\ (wire.codec = "form" /\ lastBody[1] = "text") =>
                  /\ Values(wire.pairs, "text") = {lastBody[2]}
                  /\ Values(wire.pairs, "html") = {}

HtmlVariant(e) ==
    IsSome(e.body) /\ IsSome(Unwrap(e.body).html) /\ Unwrap(e.body).text = None
TextVariant(e) ==
    IsSome(e.body) /\ IsSome(Unwrap(e.body).text) /\ Unwrap(e.body).html = None
BodyKeys(pairs) ==
    { pairs[i][1] : i \in { j \in 1..Len(pairs) : pairs[j][1] \in {"html", "text", "body"} } }

\* C8: a serialized Email is flat: to and subject, no body wrapper, html
\* alone for the HTML variant, text alone for the plain-text variant, neither
\* without a body; with a sender and an HTML body the fields are exactly
\* from, to, subject, html.
C8_SerializedFieldsAreFlatAndExclusive ==
    wire.codec # "none" =>
        LET e == built.val
            k == Keys(wire.pairs)
        IN  /\ HtmlVariant(e) => BodyKeys(wire.pairs) = {"html"}
            /\ TextVariant(e) => BodyKeys(wire.pairs) = {"text"}
            /\ e.body = None => BodyKeys(wire.pairs) = {}
            /\ (HtmlVariant(e) /\ IsSome(e.from)) =>
                  k = <<"from", "to", "subject", "html">>

\* C9: every Email build returns has a non-empty `to`.
C9_BuiltToNeverEmpty ==
    built.tag = "Ok" => built.val.to # << >>

\* C9, amended: every Email build returns comes from at least one `to` call,
\* and its `to` is non-empty unless the only `to` call had the empty string
\* as its argument.
C9_BuiltToEmptyOnlyForOneEmptyRecipient ==
    built.tag = "Ok" =>
        /\ Len(toCalls) >= 1
        /\ toCalls # << << >> >> => built.val.to # << >>

C9_Witness ==
    /\ built.tag = "Ok"
    /\ toCalls = << << >>, << >> >>
    /\ built.val.to = <<",">>

-----------------------------------------------------------------------------
\* Properties of the Mailer run (specification SendSpec).

Posted(c) == pc[c] \in {"awaiting", "reading", "done"}

\* C4: the from field posted is noreply@<domain> when the builder was given
\* no sender, and the sender given otherwise; it is never absent.
C4_PostedFromIsSenderOrDefault ==
    \A c \in Calls :
        Posted(c) =>
            /\ Len(posts[c]) >= 1
            /\ Values(posts[c][1].form, "from") =
                  { IF sender[c] = None THEN <<"noreply@">> \o domain
                    ELSE Unwrap(sender[c]) }
            /\ << >> \notin Values(posts[c][1].form, "from")

C4_Witness ==
    \E c, d \in Calls :
        /\ Posted(c) /\ sender[c] = None
        /\ Posted(d) /\ sender[d] = Some(<<"s">>)

\* the id member of a delivered body, when it is a JSON object with a string id
StringIds(r) ==
    IF IsSome(r.body) /\ Unwrap(r.body).kind = "json"
    THEN { v.val : v \in { w \in Values(Unwrap(r.body).obj, "id") : w.type = "string" } }
    ELSE {}

\* C5: a finished send call returned Ok exactly when the response had status
\* 200 and a JSON body with a string id, and then the MessageId is that id.
C5_MessageIdIffOkWithId ==
    \A c \in Calls :
        pc[c] = "done" =>
            /\ result[c].tag = "Ok" <=>
                  (resp[c].status = 200 /\ StringIds(resp[c]) # {})
            /\ result[c].tag = "Ok" =>
                  \E id \in StringIds(resp[c]) : result[c].val = <<id>>

C5_Witness ==
    \E c \in Calls :
        /\ pc[c] = "done"
        /\ result[c].tag = "Ok"
        /\ result[c].val = << <<"y">> >>
        /\ Len(Unwrap(resp[c].body).obj) = 2

\* C6: a response with a status other than 200 makes the send call fail with
\* the unexpected-status error carrying the status and the body text, and
\* with nothing else.
C6_Non200CarriesStatusAndBody ==
    \A c \in Calls :
        (pc[c] = "done" /\ resp[c].status \notin {0, 200}) =>
            /\ result[c].tag = "Non200Reply"
            /\ result[c].status = resp[c].status
            /\ "body" \in DOMAIN result[c]
            /\ IsSome(resp[c].body)
            /\ result[c].body = Unwrap(resp[c].body).text

\* C7: once the transport has failed, the call has returned the transport
\* error with the transport's diagnostic, no MessageId, and the one POST it
\* made was not repeated.
C7_TransportErrorNotRetried ==
    \A c \in Calls :
        IsSome(resp[c].error) =>
            /\ pc[c] = "done"
            /\ result[c].tag = "Http"
            /\ result[c].msg[Len(result[c].msg)] = Unwrap(resp[c].error)
            /\ Len(posts[c]) = 1

C7_Witness ==
    \E c \in Calls :
        /\ pc[c] = "done"
        /\ resp[c].status = 0
        /\ resp[c].error = Some("timeout")
        /\ result[c].tag = "Http"

\* C10: in every interleaving the Mailer stays as constructed, every call
\* that has sent made exactly one POST, to the Mailer's endpoint with its
\* credentials and with the fields of its own Email, and what a call
\* returned is read off the response to its own request.
C10_ConcurrentCallsIndependent ==
    /\ mailer.from = <<"noreply@">> \o domain
    /\ mailer.messages_url = MG_BASE_URL \o <<"/v3/">> \o domain \o <<"/messages">>
    /\ mailer.auth[1] = "Basic " /\ mailer.auth[2].base64 = <<"api:">> \o Token
    /\ \A c \in Calls :
        /\ Len(posts[c]) = IF Posted(c) THEN 1 ELSE 0
        /\ Posted(c) =>
             LET rq == posts[c][1]
                 e == Unwrap(email[c])
             IN  /\ rq.url = mailer.messages_url
                 /\ rq.auth = mailer.auth
                 /\ Values(rq.form, "to") = {e.to}
                 /\ Values(rq.form, "subject") = {e.subject}
                 /\ Values(rq.form, "text") = {Unwrap(Unwrap(e.body).text)}
                 /\ Values(rq.form, "from") =
                       {IF IsSome(e.from) THEN Unwrap(e.from) ELSE mailer.from}
                 /\ Len(rq.form) = 4
        /\ pc[c] # "done" => result[c].tag = "Pending"
        /\ pc[c] = "done" =>
             /\ result[c].tag \in {"Ok", "Http", "Non200Reply"}
             /\ result[c].tag = "Ok" =>
                   /\ resp[c].status = 200
                   /\ \E id \in StringIds(resp[c]) : result[c].val = <<id>>
             /\ result[c].tag = "Non200Reply" =>
                   result[c].status = resp[c].status /\ resp[c].status # 200

C10_Witness ==
    \E c, d \in Calls :
        /\ pc[c] = "done" /\ pc[d] = "done"
        /\ Unwrap(email[c]).to # Unwrap(email[d]).to
        /\ sender[c] = None /\ sender[d] # None
        /\ result[c].tag = "Ok" /\ result[d].tag = "Non200Reply"

====
